---------------------------- MODULE Spec2Model ----------------------------
(***************************************************************************)
(* Model of src/sshClient.go (package goScp): the two SCP engines          *)
(* CopyLocalFileToRemote (send) and CopyRemoteFileToLocal (receive), each  *)
(* a foreground call plus one background goroutine over the pipes of an    *)
(* ssh session, and the remote scp process at the other end of the pipes.  *)
(*                                                                         *)
(* Bytes are integers (ASCII codes), strings are sequences of bytes.       *)
(***************************************************************************)
EXTENDS Integers, Sequences, FiniteSets, TLC

\* ------------------------------------------------------------------ bounds
\* longest file content enumerated byte by byte
MaxContent == 2
\* length of the one longer local file (makes the decimal size two digits)
LongFileLen == 10
\* largest size a peer's control line declares
MaxDeclared == 2
\* peer output up to this many bytes is delivered in every possible split;
\* longer output is delivered record by record or all at once
FineSplitMax == 12

\* make([]byte, 100): the buffer of the control-line read
CtlBufLen == 100

\* ------------------------------------------------------------ byte values
NUL == 0
NL == 10
SP == 32
\* the digit zero
Ch0 == 48

\* "C0644", the literal first operand of the control line
C0644 == <<67, 48, 54, 52, 52>>
\* "C0755", another mode a peer may report
C0755 == <<67, 48, 55, 53, 53>>

Min(a, b) == IF a < b THEN a ELSE b

\* s[i:] of Go, i counted from 0
SliceFrom(s, i) == SubSeq(s, i + 1, Len(s))

RECURSIVE SeqsUpTo(_, _)
SeqsUpTo(S, n) ==
  IF n = 0 THEN {<<>>}
  ELSE LET shorter == SeqsUpTo(S, n - 1)
       IN  shorter \cup {Append(s, b) : s \in {t \in shorter : Len(t) = n - 1}, b \in S}

\* ------------------------------------------------------------------ codec
\* the %d verb of fmt for a non-negative int
RECURSIVE Decimal(_)
Decimal(n) == IF n < 10 THEN <<Ch0 + n>> ELSE Decimal(n \div 10) \o <<Ch0 + (n % 10)>>

\* fmt.Fprintln: the operands separated by single spaces, then a newline
RECURSIVE JoinSp(_)
JoinSp(ops) ==
  IF Len(ops) = 0 THEN <<>>
  ELSE IF Len(ops) = 1 THEN ops[1]
  ELSE ops[1] \o <<SP>> \o JoinSp(Tail(ops))

Fprintln(ops) == JoinSp(ops) \o <<NL>>

\* fmt.Fprint of one string operand
Fprint(s) == s

\* fmt.Fprintln(writer, "C0644", len(content), filename)
SendControlLine(content, filename) == Fprintln(<<C0644, Decimal(Len(content)), filename>>)

\* fmt.Fprintln(writer, "\x00")
SendTerminator_NulOnly == << NUL >>
SendTerminator == Fprintln(<< <<NUL>> >>)

\* index of the first newline of w, 0 when there is none
FirstNL(w) ==
  IF \E i \in 1..Len(w) : w[i] = NL
    THEN CHOOSE i \in 1..Len(w) : w[i] = NL /\ \A j \in 1..(i - 1) : w[j] # NL
    ELSE 0

\* index of the first space of w at or after from, 0 when there is none
FirstSP(w, from) ==
  IF \E i \in from..Len(w) : w[i] = SP
    THEN CHOOSE i \in from..Len(w) : w[i] = SP /\ \A j \in from..(i - 1) : w[j] # SP
    ELSE 0

\* strings.Split(s, " "): the substrings between the spaces, in order
RECURSIVE SplitFrom(_, _)
SplitFrom(s, from) ==
  LET p == FirstSP(s, from)
  IN  IF p = 0 THEN << SubSeq(s, from, Len(s)) >>
      ELSE << SubSeq(s, from, p - 1) >> \o SplitFrom(s, p + 1)

Split(s) == SplitFrom(s, 1)

\* scpStartLineArray[0][1:], [1], [2] are all in range
ParsePanics(line) ==
  LET a == Split(line) IN Len(a) < 3 \/ Len(a[1]) < 1

\* filePermission, fileSize, fileName of the receive goroutine
ParseControlLine(line) ==
  LET a == Split(line)
  IN  [perm |-> SliceFrom(a[1], 1), size |-> a[2], name |-> a[3]]

NoFields == [perm |-> <<>>, size |-> <<>>, name |-> <<>>]

\* ----------------------------------------------------------------- inputs
\* "h" and "h i"
ShortName == <<104>>
SpaceName == <<104, SP, 105>>
\* a name whose control line does not fit the control-line buffer
LongName == [i \in 1..(CtlBufLen - 7) |-> 120]
\* "i"
OtherName == <<105>>

FileNames == {ShortName, SpaceName, LongName}
\* "a" and the null byte
ContentBytes == {97, NUL}
LongFile == [i \in 1..LongFileLen |-> 97]
LocalFiles == SeqsUpTo(ContentBytes, MaxContent) \cup {LongFile}

\* what the caller passes as localFileName: "" or an explicit name
LocalFileNames == {<<>>, OtherName}


\* ------------------------------------------------------------------ state
VARIABLES
  call,            \* the engine the caller is inside: "none", "send", "recv"
  exited,          \* the process was terminated by log.Fatal or a panic
  \* CopyLocalFileToRemote
  localName,       \* filename argument
  localData,       \* bytes of <localFilePath>/<filename>
  sFg,             \* position of the calling goroutine
  sBg,             \* position of the background writer
  sContent,        \* content: what ioutil.ReadFile returned
  sReadErr,        \* ioutil.ReadFile returned an error (dropped)
  sBuf,            \* bytes of the Write call in progress
  sPos,            \* how many of them the write-sink has accepted
  wire,            \* bytes accepted by the write-sink, in order
  sWriterClosed,   \* writer.Close() has run
  sSessionClosed,  \* session.Close() has run
  sResult,         \* "none", "nil" or "err": the value returned
  sinkStarted,     \* the remote scp -t was started by session.Run
  \* the remote host's copy of the file
  remoteStored, remoteName, remoteData,
  \* CopyRemoteFileToLocal
  localFileName,   \* localFileName argument ("" = use the peer's name)
  rFg,             \* position of the calling goroutine
  rBg,             \* position of the background goroutine
  wg,              \* the WaitGroup counter
  acks,            \* acknowledgment bytes accepted by the write-sink
  ctlBuf,          \* scpCommandArray[:bytesRead]
  fields,          \* filePermission, fileSize, fileName
  more,            \* the loop variable
  chunk,           \* fileContents[:bytesRead] of the current iteration
  loopErr,         \* err of the latest Read: "nil", "EOF" or "other"
  fileExists, filePath, fileData, fileOpen, fileSynced,
  rWriterClosed, rSessionClosed, rResult,
  \* the remote scp -f and the read-source
  peerCtl,         \* the control line the peer sends
  peerContent,     \* the bytes it sends after it
  paced,           \* the peer waits for each acknowledgment as scp does
  served,          \* the peer serves the file stored by the send
  srcStarted,      \* the remote scp -f was started by session.Run
  peerSent,        \* bytes of its output delivered so far
  readCount,       \* bytes the engine has read so far
  peerClosed       \* the peer's output has signalled end-of-stream

inputVars == <<localName, localData>>
sendVars == <<sFg, sBg, sContent, sReadErr, sBuf, sPos, wire, sWriterClosed, sSessionClosed, sResult, sinkStarted>>
remoteVars == <<remoteStored, remoteName, remoteData>>
recvVars == <<localFileName, rFg, rBg, wg, acks, ctlBuf, fields, more, chunk, loopErr,
              rWriterClosed, rSessionClosed, rResult>>
fileVars == <<fileExists, filePath, fileData, fileOpen, fileSynced>>
peerVars == <<peerCtl, peerContent, paced, served, srcStarted, peerSent, readCount, peerClosed>>
vars == <<call, exited, inputVars, sendVars, remoteVars, recvVars, fileVars, peerVars>>

Init ==
  /\ call = "none" /\ exited = FALSE
  /\ localName = <<>> /\ localData = <<>>
  /\ sFg = "idle" /\ sBg = "none" /\ sContent = <<>> /\ sReadErr = FALSE /\ sBuf = <<>> /\ sPos = 0
  /\ wire = <<>> /\ sWriterClosed = FALSE /\ sSessionClosed = FALSE
  /\ sResult = "none" /\ sinkStarted = FALSE
  /\ remoteStored = FALSE /\ remoteName = <<>> /\ remoteData = <<>>
  /\ localFileName = <<>> /\ rFg = "idle" /\ rBg = "none" /\ wg = 0 /\ acks = 0
  /\ ctlBuf = <<>> /\ fields = NoFields /\ more = TRUE /\ chunk = <<>> /\ loopErr = "nil"
  /\ fileExists = FALSE /\ filePath = <<>> /\ fileData = <<>>
  /\ fileOpen = FALSE /\ fileSynced = FALSE
  /\ rWriterClosed = FALSE /\ rSessionClosed = FALSE /\ rResult = "none"
  /\ peerCtl = <<>> /\ peerContent = <<>> /\ paced = FALSE /\ served = FALSE
  /\ srcStarted = FALSE /\ peerSent = 0 /\ readCount = 0 /\ peerClosed = FALSE

\* --------------------------------------------------- CopyLocalFileToRemote
\* the caller enters CopyLocalFileToRemote(client, localFilePath, filename)
CallSend ==
  /\ call = "none" /\ ~exited /\ sFg = "idle" /\ rFg = "idle"
  /\ \E name \in FileNames, data \in LocalFiles :
       /\ localName' = name
       /\ localData' = data
  /\ call' = "send"
  /\ sFg' = "newsession"
  /\ UNCHANGED <<exited, sBg, sContent, sReadErr, sBuf, sPos, wire, sWriterClosed, sSessionClosed,
                 sResult, sinkStarted, remoteVars, recvVars, fileVars, peerVars>>

\* session, err := client.NewSession(); log.Fatal on error; defer session.Close()
SendNewSession ==
  /\ call = "send" /\ ~exited /\ sFg = "newsession"
  /\ \E ok \in BOOLEAN :
       IF ok THEN sFg' = "stdinpipe" /\ exited' = exited
             ELSE sFg' = sFg /\ exited' = TRUE
  /\ UNCHANGED <<call, inputVars, sBg, sContent, sReadErr, sBuf, sPos, wire, sWriterClosed,
                 sSessionClosed, sResult, sinkStarted, remoteVars, recvVars, fileVars, peerVars>>

\* writer, err := session.StdinPipe(); return err on error; defer writer.Close()
SendStdinPipe ==
  /\ call = "send" /\ ~exited /\ sFg = "stdinpipe"
  /\ \E ok \in BOOLEAN :
       IF ok THEN sFg' = "spawn" /\ sResult' = sResult
             ELSE sFg' = "closesession" /\ sResult' = "err"
  /\ UNCHANGED <<call, exited, inputVars, sBg, sContent, sReadErr, sBuf, sPos, wire, sWriterClosed,
                 sSessionClosed, sinkStarted, remoteVars, recvVars, fileVars, peerVars>>

\* go func() { ... }()
SendSpawn ==
  /\ call = "send" /\ ~exited /\ sFg = "spawn"
  /\ sFg' = "run"
  /\ sBg' = "readfile"
  /\ UNCHANGED <<call, exited, inputVars, sContent, sReadErr, sBuf, sPos, wire, sWriterClosed,
                 sSessionClosed, sResult, sinkStarted, remoteVars, recvVars, fileVars, peerVars>>

\* session.Run("/usr/bin/scp -t ./") starts the remote command (or fails to)
SendRun ==
  /\ call = "send" /\ ~exited /\ sFg = "run"
  /\ \E ok \in BOOLEAN : sinkStarted' = ok
  /\ sFg' = "running"
  /\ UNCHANGED <<call, exited, inputVars, sBg, sContent, sReadErr, sBuf, sPos, wire, sWriterClosed,
                 sSessionClosed, sResult, remoteVars, recvVars, fileVars, peerVars>>

\* the same step, were the function to join its writer before returning
SendRunReturn_Joined ==
  /\ call = "send" /\ ~exited /\ sFg = "running"
  /\ sBg = "done"
  /\ sFg' = "closewriter"
  /\ sResult' = "nil"
  /\ UNCHANGED <<call, exited, inputVars, sBg, sContent, sReadErr, sBuf, sPos, wire, sWriterClosed,
                 sSessionClosed, sinkStarted, remoteVars, recvVars, fileVars, peerVars>>

\* session.Run returns (the remote command ended, or never started); its
\* error is dropped; "return nil" is reached
SendRunReturn ==
  /\ call = "send" /\ ~exited /\ sFg = "running"
  /\ sFg' = "closewriter"
  /\ sResult' = "nil"
  /\ UNCHANGED <<call, exited, inputVars, sBg, sContent, sReadErr, sBuf, sPos, wire, sWriterClosed,
                 sSessionClosed, sinkStarted, remoteVars, recvVars, fileVars, peerVars>>

\* deferred writer.Close()
SendCloseWriter ==
  /\ call = "send" /\ ~exited /\ sFg = "closewriter"
  /\ sWriterClosed' = TRUE
  /\ sFg' = "closesession"
  /\ UNCHANGED <<call, exited, inputVars, sBg, sContent, sReadErr, sBuf, sPos, wire,
                 sSessionClosed, sResult, sinkStarted, remoteVars, recvVars, fileVars, peerVars>>

\* deferred session.Close(); the function has returned
SendCloseSession ==
  /\ call = "send" /\ ~exited /\ sFg = "closesession"
  /\ sSessionClosed' = TRUE
  /\ sFg' = "returned"
  /\ call' = "none"
  /\ UNCHANGED <<exited, inputVars, sBg, sContent, sReadErr, sBuf, sPos, wire, sWriterClosed,
                 sResult, sinkStarted, remoteVars, recvVars, fileVars, peerVars>>

\* the same step, were the writer to give up when the file cannot be read
SendBgReadFile_AbortOnError ==
  /\ ~exited /\ sBg = "readfile"
  /\ \E err \in BOOLEAN, n \in 0..Len(localData) :
       /\ IF err THEN n = 0 \/ n < Len(localData) ELSE n = Len(localData)
       /\ sReadErr' = err
       /\ sContent' = SubSeq(localData, 1, n)
       /\ sBuf' = IF err THEN <<>> ELSE SendControlLine(SubSeq(localData, 1, n), localName)
       /\ sBg' = IF err THEN "done" ELSE "ctl"
  /\ sPos' = 0
  /\ UNCHANGED <<call, exited, inputVars, sFg, wire, sWriterClosed, sSessionClosed,
                 sResult, sinkStarted, remoteVars, recvVars, fileVars, peerVars>>

\* fileContents, _ := ioutil.ReadFile(...); content := string(fileContents)
\* On success the whole file; on an error the bytes read before it (none
\* when the file cannot be opened).  The first Fprintln is then formatted.
SendBgReadFile ==
  /\ ~exited /\ sBg = "readfile"
  /\ \E err \in BOOLEAN, n \in 0..Len(localData) :
       /\ IF err THEN n = 0 \/ n < Len(localData) ELSE n = Len(localData)
       /\ sReadErr' = err
       /\ sContent' = SubSeq(localData, 1, n)
       /\ sBuf' = SendControlLine(SubSeq(localData, 1, n), localName)
  /\ sPos' = 0
  /\ sBg' = "ctl"
  /\ UNCHANGED <<call, exited, inputVars, sFg, wire, sWriterClosed, sSessionClosed,
                 sResult, sinkStarted, remoteVars, recvVars, fileVars, peerVars>>

\* the statement after the Write call of phase p, and the bytes it writes
SendNextPhase(p) ==
  IF p = "ctl" THEN "content" ELSE IF p = "content" THEN "term" ELSE "done"

SendNextBuf(p) ==
  IF p = "ctl" THEN Fprint(sContent) ELSE IF p = "content" THEN SendTerminator ELSE <<>>

\* the same step, were a closed write-sink still to accept bytes
SendBgWrite_IgnoresClose ==
  /\ ~exited /\ sBg \in {"ctl", "content", "term"}
  /\ IF sPos >= Len(sBuf)
       THEN /\ wire' = wire
            /\ sBg' = SendNextPhase(sBg)
            /\ sBuf' = SendNextBuf(sBg)
            /\ sPos' = 0
       ELSE /\ wire' = Append(wire, sBuf[sPos + 1])
            /\ sPos' = sPos + 1
            /\ UNCHANGED <<sBg, sBuf>>
  /\ UNCHANGED <<call, exited, inputVars, sFg, sContent, sReadErr, sWriterClosed, sSessionClosed,
                 sResult, sinkStarted, remoteVars, recvVars, fileVars, peerVars>>

\* One step of the Write call behind Fprintln / Fprint / Fprintln: the
\* write-sink accepts the next byte; a closed sink fails the call, whose
\* error is dropped, and the writer goes on to its next statement.
SendBgWrite ==
  /\ ~exited /\ sBg \in {"ctl", "content", "term"}
  /\ IF sWriterClosed \/ sPos >= Len(sBuf)
       THEN /\ wire' = wire
            /\ sBg' = SendNextPhase(sBg)
            /\ sBuf' = SendNextBuf(sBg)
            /\ sPos' = 0
       ELSE /\ wire' = Append(wire, sBuf[sPos + 1])
            /\ sPos' = sPos + 1
            /\ UNCHANGED <<sBg, sBuf>>
  /\ UNCHANGED <<call, exited, inputVars, sFg, sContent, sReadErr, sWriterClosed, sSessionClosed,
                 sResult, sinkStarted, remoteVars, recvVars, fileVars, peerVars>>

\* ------------------------------------------------------ the remote scp -t
\* The sink reads "C<mode> <size> <name>\n", then <size> bytes, then the
\* null byte that ends the record.
RECURSIVE DecimalValue(_)
DecimalValue(ds) ==
  IF Len(ds) = 0 THEN 0
  ELSE 10 * DecimalValue(SubSeq(ds, 1, Len(ds) - 1)) + (ds[Len(ds)] - Ch0)

IsDecimal(ds) == Len(ds) > 0 /\ \A i \in 1..Len(ds) : ds[i] \in Ch0..(Ch0 + 9)

SinkRecord(w) ==
  LET nl == FirstNL(w)
      line == SubSeq(w, 1, nl - 1)
      s1 == FirstSP(line, 1)
      s2 == FirstSP(line, s1 + 1)
      size == SubSeq(line, s1 + 1, s2 - 1)
      n == DecimalValue(size)
  IN  IF nl > 0 /\ s1 > 0 /\ s2 > 0 /\ IsDecimal(size)
         /\ Len(w) >= nl + n + 1 /\ w[nl + n + 1] = NUL
        THEN [ok |-> TRUE, name |-> SubSeq(line, s2 + 1, Len(line)),
              data |-> SubSeq(w, nl + 1, nl + n)]
        ELSE [ok |-> FALSE, name |-> <<>>, data |-> <<>>]

\* the sink has a whole record and stores the file under the sent name
PeerStore ==
  /\ ~exited /\ sinkStarted /\ ~remoteStored
  /\ SinkRecord(wire).ok
  /\ remoteStored' = TRUE
  /\ remoteName' = SinkRecord(wire).name
  /\ remoteData' = SinkRecord(wire).data
  /\ UNCHANGED <<call, exited, inputVars, sendVars, recvVars, fileVars, peerVars>>

SendNext ==
  \/ CallSend \/ SendNewSession \/ SendStdinPipe \/ SendSpawn \/ SendRun
  \/ SendRunReturn \/ SendCloseWriter \/ SendCloseSession
  \/ SendBgReadFile \/ SendBgWrite \/ PeerStore


\* --------------------------------------------------- CopyRemoteFileToLocal
\* lines a remote scp -f may send first: well-formed control lines, a line
\* of two fields, and nothing at all
PeerLine(mode, size, name) == mode \o <<SP>> \o size \o <<SP>> \o name \o <<NL>>

PeerLines ==
  {PeerLine(m, Decimal(d), n) : m \in {C0644, C0755}, d \in 0..MaxDeclared, n \in FileNames}
    \cup {<<>>, C0644 \o <<SP>> \o Decimal(1) \o <<NL>>}

PeerContents == SeqsUpTo(ContentBytes, MaxContent)

\* everything the peer writes to its output before it ends
PeerOut == peerCtl \o peerContent

\* the caller enters CopyRemoteFileToLocal against a remote file of its own
CallRecv ==
  /\ call = "none" /\ ~exited /\ rFg = "idle" /\ sFg = "idle"
  /\ \E lf \in LocalFileNames, line \in PeerLines, data \in PeerContents, p \in BOOLEAN :
       /\ localFileName' = lf
       /\ peerCtl' = line
       /\ peerContent' = data
       /\ paced' = p
  /\ served' = FALSE
  /\ call' = "recv"
  /\ rFg' = "newsession"
  /\ UNCHANGED <<exited, inputVars, sendVars, remoteVars, rBg, wg, acks, ctlBuf, fields, more,
                 chunk, loopErr, rWriterClosed, rSessionClosed, rResult, fileVars,
                 srcStarted, peerSent, readCount, peerClosed>>

\* the caller enters CopyRemoteFileToLocal for the file a completed send left
\* on the remote host; scp -f reports it as "C0644 <length> <name>\n"
CallRecvStored ==
  /\ call = "none" /\ ~exited /\ rFg = "idle" /\ sFg = "returned" /\ remoteStored
  /\ \E lf \in LocalFileNames, p \in BOOLEAN :
       /\ localFileName' = lf
       /\ paced' = p
  /\ peerCtl' = PeerLine(C0644, Decimal(Len(remoteData)), remoteName)
  /\ peerContent' = remoteData
  /\ served' = TRUE
  /\ call' = "recv"
  /\ rFg' = "newsession"
  /\ UNCHANGED <<exited, inputVars, sendVars, remoteVars, rBg, wg, acks, ctlBuf, fields, more,
                 chunk, loopErr, rWriterClosed, rSessionClosed, rResult, fileVars,
                 srcStarted, peerSent, readCount, peerClosed>>

\* session, err := client.NewSession(); log.Fatal on error; defer session.Close()
RecvNewSession ==
  /\ call = "recv" /\ ~exited /\ rFg = "newsession"
  /\ \E ok \in BOOLEAN :
       IF ok THEN rFg' = "stdinpipe" /\ exited' = exited
             ELSE rFg' = rFg /\ exited' = TRUE
  /\ UNCHANGED <<call, inputVars, sendVars, remoteVars, localFileName, rBg, wg, acks, ctlBuf,
                 fields, more, chunk, loopErr, rWriterClosed, rSessionClosed, rResult,
                 fileVars, peerVars>>

\* writer, err := session.StdinPipe(); return err on error
RecvStdinPipe ==
  /\ call = "recv" /\ ~exited /\ rFg = "stdinpipe"
  /\ \E ok \in BOOLEAN :
       IF ok THEN rFg' = "stdoutpipe" /\ rResult' = rResult
             ELSE rFg' = "closesession" /\ rResult' = "err"
  /\ UNCHANGED <<call, exited, inputVars, sendVars, remoteVars, localFileName, rBg, wg, acks,
                 ctlBuf, fields, more, chunk, loopErr, rWriterClosed, rSessionClosed,
                 fileVars, peerVars>>

\* reader, err := session.StdoutPipe(); return err on error
RecvStdoutPipe ==
  /\ call = "recv" /\ ~exited /\ rFg = "stdoutpipe"
  /\ \E ok \in BOOLEAN :
       IF ok THEN rFg' = "spawn" /\ rResult' = rResult
             ELSE rFg' = "closesession" /\ rResult' = "err"
  /\ UNCHANGED <<call, exited, inputVars, sendVars, remoteVars, localFileName, rBg, wg, acks,
                 ctlBuf, fields, more, chunk, loopErr, rWriterClosed, rSessionClosed,
                 fileVars, peerVars>>

\* var wg sync.WaitGroup; wg.Add(1); go func(...) {...}(writer, reader, &wg)
RecvSpawn ==
  /\ call = "recv" /\ ~exited /\ rFg = "spawn"
  /\ wg' = 1
  /\ rBg' = "ack1"
  /\ rFg' = "run"
  /\ UNCHANGED <<call, exited, inputVars, sendVars, remoteVars, localFileName, acks, ctlBuf,
                 fields, more, chunk, loopErr, rWriterClosed, rSessionClosed, rResult,
                 fileVars, peerVars>>

\* session.Run("/usr/bin/scp -f ...") starts the remote command (or fails to)
RecvRun ==
  /\ call = "recv" /\ ~exited /\ rFg = "run"
  /\ \E ok \in BOOLEAN : srcStarted' = ok
  /\ rFg' = "running"
  /\ UNCHANGED <<call, exited, inputVars, sendVars, remoteVars, localFileName, rBg, wg, acks,
                 ctlBuf, fields, more, chunk, loopErr, rWriterClosed, rSessionClosed, rResult,
                 fileVars, peerCtl, peerContent, paced, served, peerSent, readCount, peerClosed>>

\* session.Run returns: the command never started, or it has ended (a
\* command that cannot run ends at once); its error is dropped
RecvRunReturn ==
  /\ call = "recv" /\ ~exited /\ rFg = "running"
  /\ rFg' = "wait"
  /\ UNCHANGED <<call, exited, inputVars, sendVars, remoteVars, localFileName, rBg, wg, acks,
                 ctlBuf, fields, more, chunk, loopErr, rWriterClosed, rSessionClosed, rResult,
                 fileVars, peerVars>>

\* wg.Wait(), were the counter not consulted
RecvWait_NoJoin ==
  /\ call = "recv" /\ ~exited /\ rFg = "wait"
  /\ rFg' = "closewriter"
  /\ UNCHANGED <<call, exited, inputVars, sendVars, remoteVars, localFileName, rBg, wg, acks,
                 ctlBuf, fields, more, chunk, loopErr, rWriterClosed, rSessionClosed, rResult,
                 fileVars, peerVars>>

\* wg.Wait()
RecvWait ==
  /\ call = "recv" /\ ~exited /\ rFg = "wait"
  /\ wg = 0
  /\ rFg' = "closewriter"
  /\ UNCHANGED <<call, exited, inputVars, sendVars, remoteVars, localFileName, rBg, wg, acks,
                 ctlBuf, fields, more, chunk, loopErr, rWriterClosed, rSessionClosed, rResult,
                 fileVars, peerVars>>

\* writer.Close(); return nil
RecvCloseWriter ==
  /\ call = "recv" /\ ~exited /\ rFg = "closewriter"
  /\ rWriterClosed' = TRUE
  /\ rResult' = "nil"
  /\ rFg' = "closesession"
  /\ UNCHANGED <<call, exited, inputVars, sendVars, remoteVars, localFileName, rBg, wg, acks,
                 ctlBuf, fields, more, chunk, loopErr, rSessionClosed, fileVars, peerVars>>

\* deferred session.Close(); the function has returned
RecvCloseSession ==
  /\ call = "recv" /\ ~exited /\ rFg = "closesession"
  /\ rSessionClosed' = TRUE
  /\ rFg' = "returned"
  /\ call' = "none"
  /\ UNCHANGED <<exited, inputVars, sendVars, remoteVars, localFileName, rBg, wg, acks,
                 ctlBuf, fields, more, chunk, loopErr, rWriterClosed, rResult, fileVars, peerVars>>

\* ---- the background goroutine
\* writer.Write(successfulByte): one byte, accepted unless the sink is closed
WriteAck == IF rWriterClosed THEN acks ELSE acks + 1

\* bytes delivered by the peer and not yet read
Avail == peerSent - readCount

\* a Read that gave up waiting and returned with nothing
ReadReady_NoBlock == TRUE

\* a Read may return once there is data or the stream has ended
ReadReady == Avail > 0 \/ peerClosed

\* writer.Write(successfulByte)    (ready to receive)
BgAck1 ==
  /\ ~exited /\ rBg = "ack1"
  /\ acks' = WriteAck
  /\ rBg' = "readctl"
  /\ UNCHANGED <<call, exited, inputVars, sendVars, remoteVars, localFileName, rFg, wg,
                 ctlBuf, fields, more, chunk, loopErr, rWriterClosed, rSessionClosed, rResult,
                 fileVars, peerVars>>

\* the control-line read, were it repeated until the buffer is full or a
\* read reports end-of-stream
BgReadCtl_Accumulate ==
  /\ ~exited /\ rBg = "readctl"
  /\ \/ /\ ReadReady
        /\ LET n == Min(CtlBufLen - Len(ctlBuf), Avail)
           IN  /\ ctlBuf' = ctlBuf \o SubSeq(PeerOut, readCount + 1, readCount + n)
               /\ readCount' = readCount + n
               /\ loopErr' = IF n = 0 THEN "EOF" ELSE "nil"
               /\ rBg' = IF n = 0 \/ Len(ctlBuf) + n = CtlBufLen THEN "parse" ELSE "readctl"
        /\ exited' = exited
     \/ /\ loopErr' = "other"
        /\ exited' = TRUE
        /\ UNCHANGED <<ctlBuf, readCount, rBg>>
  /\ UNCHANGED <<call, inputVars, sendVars, remoteVars, localFileName, rFg, wg, acks,
                 fields, more, chunk, rWriterClosed, rSessionClosed, rResult,
                 fileVars, peerCtl, peerContent, paced, served, srcStarted, peerSent, peerClosed>>

\* bytesRead, err := reader.Read(scpCommandArray): one Read into the
\* 100-byte buffer; io.EOF is "no problem", another error is log.Fatalf
BgReadCtl ==
  /\ ~exited /\ rBg = "readctl"
  /\ \/ /\ ReadReady
        /\ LET n == Min(CtlBufLen, Avail)
           IN  /\ ctlBuf' = SubSeq(PeerOut, readCount + 1, readCount + n)
               /\ readCount' = readCount + n
               /\ loopErr' = IF n = 0 THEN "EOF" ELSE "nil"
        /\ rBg' = "parse"
        /\ exited' = exited
     \/ /\ loopErr' = "other"
        /\ exited' = TRUE
        /\ UNCHANGED <<ctlBuf, readCount, rBg>>
  /\ UNCHANGED <<call, inputVars, sendVars, remoteVars, localFileName, rFg, wg, acks,
                 fields, more, chunk, rWriterClosed, rSessionClosed, rResult,
                 fileVars, peerCtl, peerContent, paced, served, srcStarted, peerSent, peerClosed>>

\* the same step, were a line of too few fields skipped over instead of
\* indexed
BgParse_Recover ==
  /\ ~exited /\ rBg = "parse"
  /\ fields' = IF ParsePanics(ctlBuf) THEN NoFields ELSE ParseControlLine(ctlBuf)
  /\ rBg' = "ack2"
  /\ UNCHANGED <<call, exited, inputVars, sendVars, remoteVars, localFileName, rFg, wg, acks,
                 ctlBuf, more, chunk, loopErr, rWriterClosed, rSessionClosed, rResult,
                 fileVars, peerVars>>

\* strings.Split and the three index expressions (a panic ends the process)
BgParse ==
  /\ ~exited /\ rBg = "parse"
  /\ IF ParsePanics(ctlBuf)
       THEN exited' = TRUE /\ UNCHANGED <<fields, rBg>>
       ELSE fields' = ParseControlLine(ctlBuf) /\ rBg' = "ack2" /\ exited' = exited
  /\ UNCHANGED <<call, inputVars, sendVars, remoteVars, localFileName, rFg, wg, acks,
                 ctlBuf, more, chunk, loopErr, rWriterClosed, rSessionClosed, rResult,
                 fileVars, peerVars>>

\* the same step with the acknowledgment left out
BgAck2_NoAck ==
  /\ ~exited /\ rBg = "ack2"
  /\ rBg' = "create"
  /\ UNCHANGED <<call, exited, inputVars, sendVars, remoteVars, localFileName, rFg, wg, acks,
                 ctlBuf, fields, more, chunk, loopErr, rWriterClosed, rSessionClosed, rResult,
                 fileVars, peerVars>>

\* writer.Write(successfulByte)    (control line received)
BgAck2 ==
  /\ ~exited /\ rBg = "ack2"
  /\ acks' = WriteAck
  /\ rBg' = "create"
  /\ UNCHANGED <<call, exited, inputVars, sendVars, remoteVars, localFileName, rFg, wg,
                 ctlBuf, fields, more, chunk, loopErr, rWriterClosed, rSessionClosed, rResult,
                 fileVars, peerVars>>

\* the name under localFilePath + "/" that createNewFile is called with
DestName == IF localFileName = <<>> THEN fields.name ELSE localFileName

\* createNewFile(path): creates or truncates the file and returns it open;
\* a file-system error ends the process
createNewFile(name) ==
  \/ /\ fileExists' = TRUE
     /\ filePath' = name
     /\ fileData' = <<>>
     /\ fileOpen' = TRUE
     /\ fileSynced' = FALSE
     /\ exited' = exited
     /\ rBg' = "loopread"
  \/ /\ exited' = TRUE
     /\ UNCHANGED <<fileVars, rBg>>

\* file = createNewFile(localFilePath + "/" + ...); more := true
BgCreate ==
  /\ ~exited /\ rBg = "create"
  /\ createNewFile(DestName)
  /\ more' = TRUE
  /\ UNCHANGED <<call, inputVars, sendVars, remoteVars, localFileName, rFg, wg, acks,
                 ctlBuf, fields, chunk, loopErr, rWriterClosed, rSessionClosed, rResult,
                 peerVars>>

\* the value of more after a read that returned err
LoopMore_DeclaredSize(err) ==
  err # "EOF" /\ Len(fileData) + 1 < DecimalValue(fields.size)
LoopMore(err) == err # "EOF"

\* the loop's read, were every error handled like end-of-stream
BgLoopRead_ErrorAsEOF ==
  /\ ~exited /\ rBg = "loopread"
  /\ \/ /\ ReadReady
        /\ LET n == Min(1, Avail)
               err == IF n = 0 THEN "EOF" ELSE "nil"
           IN  /\ chunk' = SubSeq(PeerOut, readCount + 1, readCount + n)
               /\ readCount' = readCount + n
               /\ loopErr' = err
               /\ more' = LoopMore(err)
     \/ /\ loopErr' = "other"
        /\ more' = FALSE
        /\ chunk' = <<>>
        /\ readCount' = readCount
  /\ rBg' = "loopwrite"
  /\ UNCHANGED <<call, exited, inputVars, sendVars, remoteVars, localFileName, rFg, wg, acks,
                 ctlBuf, fields, rWriterClosed, rSessionClosed, rResult,
                 fileVars, peerCtl, peerContent, paced, served, srcStarted, peerSent, peerClosed>>

\* bytesRead, err = reader.Read(fileContents) into the one-byte buffer
BgLoopRead ==
  /\ ~exited /\ rBg = "loopread"
  /\ \/ /\ ReadReady
        /\ LET n == Min(1, Avail)
               err == IF n = 0 THEN "EOF" ELSE "nil"
           IN  /\ chunk' = SubSeq(PeerOut, readCount + 1, readCount + n)
               /\ readCount' = readCount + n
               /\ loopErr' = err
               /\ more' = LoopMore(err)
        /\ rBg' = "loopwrite"
        /\ exited' = exited
     \/ /\ loopErr' = "other"
        /\ exited' = TRUE
        /\ UNCHANGED <<chunk, readCount, more, rBg>>
  /\ UNCHANGED <<call, inputVars, sendVars, remoteVars, localFileName, rFg, wg, acks,
                 ctlBuf, fields, rWriterClosed, rSessionClosed, rResult,
                 fileVars, peerCtl, peerContent, paced, served, srcStarted, peerSent, peerClosed>>

\* writeParitalToFile(file, bytes): appends the bytes to the open file
writeParitalToFile(bytes) == fileData' = fileData \o bytes

\* writeParitalToFile(file, fileContents[:bytesRead])
BgLoopWrite ==
  /\ ~exited /\ rBg = "loopwrite"
  /\ writeParitalToFile(chunk)
  /\ rBg' = "loopack"
  /\ UNCHANGED <<call, exited, inputVars, sendVars, remoteVars, localFileName, rFg, wg, acks,
                 ctlBuf, fields, more, chunk, loopErr, rWriterClosed, rSessionClosed, rResult,
                 fileExists, filePath, fileOpen, fileSynced, peerVars>>

\* the same step, were the read that reported end-of-stream not acknowledged
BgLoopAck_NoAckOnEOF ==
  /\ ~exited /\ rBg = "loopack"
  /\ acks' = IF loopErr = "EOF" THEN acks ELSE WriteAck
  /\ rBg' = IF more THEN "loopread" ELSE "sync"
  /\ UNCHANGED <<call, exited, inputVars, sendVars, remoteVars, localFileName, rFg, wg,
                 ctlBuf, fields, more, chunk, loopErr, rWriterClosed, rSessionClosed, rResult,
                 fileVars, peerVars>>

\* writer.Write(successfulByte), then the loop test
BgLoopAck ==
  /\ ~exited /\ rBg = "loopack"
  /\ acks' = WriteAck
  /\ rBg' = IF more THEN "loopread" ELSE "sync"
  /\ UNCHANGED <<call, exited, inputVars, sendVars, remoteVars, localFileName, rFg, wg,
                 ctlBuf, fields, more, chunk, loopErr, rWriterClosed, rSessionClosed, rResult,
                 fileVars, peerVars>>

\* err = file.Sync(); log.Fatal on error
BgSync ==
  /\ ~exited /\ rBg = "sync"
  /\ \E ok \in BOOLEAN :
       IF ok THEN fileSynced' = TRUE /\ rBg' = "wgdone" /\ exited' = exited
             ELSE fileSynced' = fileSynced /\ rBg' = rBg /\ exited' = TRUE
  /\ UNCHANGED <<call, inputVars, sendVars, remoteVars, localFileName, rFg, wg, acks,
                 ctlBuf, fields, more, chunk, loopErr, rWriterClosed, rSessionClosed, rResult,
                 fileExists, filePath, fileData, fileOpen, peerVars>>

\* wg.Done(); the goroutine ends
BgDone ==
  /\ ~exited /\ rBg = "wgdone"
  /\ wg' = wg - 1
  /\ rBg' = "done"
  /\ UNCHANGED <<call, exited, inputVars, sendVars, remoteVars, localFileName, rFg, acks,
                 ctlBuf, fields, more, chunk, loopErr, rWriterClosed, rSessionClosed, rResult,
                 fileVars, peerVars>>

\* ------------------------------------------------------ the remote scp -f
\* how many bytes the next delivery may carry.  A paced peer sends its
\* control line after the first acknowledgment and its content after the
\* second, each record whole; any other peer writes whenever it likes.
DeliverSizes ==
  LET remaining == Len(PeerOut) - peerSent
      toLineEnd == Len(peerCtl) - peerSent
      fine == IF Len(PeerOut) <= FineSplitMax THEN 1..remaining ELSE {}
  IN  IF paced
        THEN IF toLineEnd > 0
               THEN IF acks >= 1 THEN {toLineEnd} ELSE {}
               ELSE IF acks >= 2 THEN {remaining} \cup fine ELSE {}
        ELSE {remaining} \cup fine \cup (IF toLineEnd > 0 THEN {toLineEnd} ELSE {})

PeerDeliver ==
  /\ ~exited /\ srcStarted /\ ~peerClosed
  /\ peerSent < Len(PeerOut)
  /\ \E n \in DeliverSizes : peerSent' = peerSent + n
  /\ UNCHANGED <<call, exited, inputVars, sendVars, remoteVars, recvVars, fileVars,
                 peerCtl, peerContent, paced, served, srcStarted, readCount, peerClosed>>

\* the peer has written everything and its output signals end-of-stream
PeerClose ==
  /\ ~exited /\ srcStarted /\ ~peerClosed
  /\ peerSent = Len(PeerOut)
  /\ peerClosed' = TRUE
  /\ UNCHANGED <<call, exited, inputVars, sendVars, remoteVars, recvVars, fileVars,
                 peerCtl, peerContent, paced, served, srcStarted, peerSent, readCount>>

RecvNext ==
  \/ CallRecv \/ CallRecvStored \/ RecvNewSession \/ RecvStdinPipe \/ RecvStdoutPipe
  \/ RecvSpawn \/ RecvRun \/ RecvRunReturn \/ RecvWait \/ RecvCloseWriter \/ RecvCloseSession
  \/ BgAck1 \/ BgReadCtl \/ BgParse \/ BgAck2 \/ BgCreate \/ BgLoopRead \/ BgLoopWrite
  \/ BgLoopAck \/ BgSync \/ BgDone \/ PeerDeliver \/ PeerClose

Next == SendNext \/ RecvNext

Spec == Init /\ [][Next]_vars

\* the steps of one receive, from the call to its return, with the peer's
RecvSteps ==
  \/ CallRecv \/ RecvNewSession \/ RecvStdinPipe \/ RecvStdoutPipe
  \/ RecvSpawn \/ RecvRun \/ RecvRunReturn \/ RecvWait \/ RecvCloseWriter \/ RecvCloseSession
  \/ BgAck1 \/ BgReadCtl \/ BgParse \/ BgAck2 \/ BgCreate \/ BgLoopRead \/ BgLoopWrite
  \/ BgLoopAck \/ BgSync \/ BgDone \/ PeerDeliver \/ PeerClose

\* a receive under fair scheduling: the Go scheduler runs a runnable
\* goroutine, the peer sends what it has and the remote command returns, so
\* the receive does not stop while one of its steps is possible
LiveSpec == Init /\ [][RecvSteps]_vars /\ WF_vars(RecvSteps)


\* ================================================================= claims
\* the file name a control line carries: the bytes after its second space,
\* up to its newline
SentName(l) ==
  LET nl == FirstNL(l)
      s1 == FirstSP(l, 1)
      s2 == FirstSP(l, s1 + 1)
  IN  SubSeq(l, s2 + 1, nl - 1)

IsOctal4(m) == Len(m) = 4 /\ \A i \in 1..4 : m[i] \in Ch0..(Ch0 + 7)

\* "C<4-digit-octal-mode> <decimal-size> <filename>\n", the filename free of spaces
WellFormedLine(l) ==
  LET a == Split(l)
  IN  /\ Len(a) = 3
      /\ Len(a[1]) = 5 /\ a[1][1] = 67 /\ IsOctal4(Tail(a[1]))
      /\ IsDecimal(a[2])
      /\ Len(a[3]) >= 2 /\ FirstNL(a[3]) = Len(a[3])

\* the part of a name before its first space
BeforeFirstSpace(n) ==
  IF FirstSP(n, 1) = 0 THEN n ELSE SubSeq(n, 1, FirstSP(n, 1) - 1)

\* the receive call reached "return nil"
RecvReturnedNil == rFg = "returned" /\ rResult = "nil"

\* C1: whenever CopyRemoteFileToLocal has closed its write-side pipe or has
\* returned, its background goroutine (if one was started) has finished and
\* has synchronized the destination file; and from then on no
\* acknowledgment byte is written and no byte is appended to the file.
C1_JoinBeforeClose ==
  /\ []((rWriterClosed \/ rFg = "returned") =>
          /\ rBg \in {"none", "done"}
          /\ (rResult = "nil" => rBg = "done" /\ fileSynced /\ wg = 0))
  /\ [][(rWriterClosed \/ rFg = "returned") => (acks' = acks /\ fileData' = fileData)]_vars

C1_Witness ==
  RecvReturnedNil /\ rWriterClosed /\ rBg = "done" /\ Len(fileData) = 2 /\ acks = 5

\* C2: CopyLocalFileToRemote never waits for its background writer: once
\* the writer is spawned, the calling goroutine's next step (the start and
\* the return of session.Run, the deferred closes) is enabled whatever the
\* writer has or has not written yet.
C2_SendDoesNotJoin ==
  (call = "send" /\ ~exited /\ sFg \in {"run", "running", "closewriter", "closesession"})
    => ENABLED (SendRun \/ SendRunReturn \/ SendCloseWriter \/ SendCloseSession)

\* returned, sink closed, and the writer has not even read the file
C2_Witness ==
  /\ sFg = "returned" /\ sResult = "nil" /\ sWriterClosed
  /\ sBg = "readfile" /\ wire = <<>>

\* C3: when the background writer has finished and the write-sink is still
\* open, the accepted bytes are "C0644 ", the decimal digits of N, a space,
\* the filename, a newline, then N bytes that are the first N bytes of the
\* local file (all of it when it was read without error), then a null byte
\* and a newline; N = 0 included.
C3_WireRecord ==
  (sBg = "done" /\ ~sWriterClosed) =>
    \E n \in 0..Len(localData) :
      LET dl == Len(wire) - (Len(localName) + n + 10)
          digits == SubSeq(wire, 7, 6 + dl)
      IN  /\ dl >= 1
          /\ IsDecimal(digits) /\ DecimalValue(digits) = n
          /\ (dl > 1 => digits[1] # Ch0)
          /\ wire = <<67, 48, 54, 52, 52, SP>> \o digits \o <<SP>> \o localName \o <<NL>>
                      \o SubSeq(localData, 1, n) \o <<NUL, NL>>
          /\ (~sReadErr => n = Len(localData))

\* the empty file "h": "C0644 0 h\n" followed at once by the terminator
C3_Witness ==
  /\ sBg = "done" /\ ~sWriterClosed /\ ~sReadErr /\ localData = <<>>
  /\ wire = <<67, 48, 54, 52, 52, SP, 48, SP, 104, NL, NUL, NL>>

C5_RoundTrip ==
  (served /\ paced /\ ~sReadErr /\ localFileName # <<>> /\ localFileName # localName
     /\ rBg = "done") => fileData = localData

\* C6: for a well-formed control line the destination is
\* <localFilePath>/<name carried by the line> when localFileName is empty
\* and <localFilePath>/<localFileName> otherwise.
C6_DestinationName ==
  (fileExists /\ ctlBuf = peerCtl /\ WellFormedLine(peerCtl)) =>
    filePath = (IF localFileName = <<>> THEN SentName(peerCtl) ELSE localFileName)

\* C7: a failed setup step (session, write-sink, read-source) is returned
\* as an error and never ends the process; an error is returned only
\* before any background task, remote command, written byte or local file;
\* every other return is nil.
C7_ErrorBoundary ==
  /\ (exited => sFg # "newsession" /\ rFg # "newsession")
  /\ (sResult = "err" => sBg = "none" /\ sFg \in {"closesession", "returned"}
                          /\ ~sinkStarted /\ wire = <<>>)
  /\ (rResult = "err" => rBg = "none" /\ rFg \in {"closesession", "returned"}
                          /\ ~srcStarted /\ acks = 0 /\ ~fileExists)
  /\ (sFg = "returned" /\ sBg # "none" => sResult = "nil")
  /\ (rFg = "returned" /\ rBg # "none" => rResult = "nil")

\* C8: when CopyRemoteFileToLocal returns nil the destination file has been
\* synchronized and closed.
C8_FileSyncedAndClosed ==
  RecvReturnedNil => fileSynced /\ ~fileOpen

\* the Send Engine's Format applied to a parsed control line: a content of
\* the parsed size and the parsed name
FormatParsed(f) ==
  SendControlLine([i \in 1..DecimalValue(f.size) |-> NUL], f.name)

\* C9: parsing a well-formed control line and formatting the result gives
\* the line back.
C9_FormatParse ==
  (rBg \in {"ack2", "create"} /\ ctlBuf = peerCtl /\ WellFormedLine(peerCtl)) =>
    FormatParsed(fields) = peerCtl

\* C10: with no explicit local name the destination is named by the sent
\* name up to its first space: the whole name when it has no space.
C10_NameUpToSpace ==
  (fileExists /\ localFileName = <<>> /\ ctlBuf = peerCtl /\ ~ParsePanics(peerCtl)
     /\ FirstNL(peerCtl) = Len(peerCtl)) =>
    filePath = BeforeFirstSpace(SentName(peerCtl))


\* a is an initial part of b
IsPrefix(a, b) == Len(a) <= Len(b) /\ a = SubSeq(b, 1, Len(a))

\* positions of the background goroutine after the control-line read
AfterCtlRead ==
  {"parse", "ack2", "create", "loopread", "loopwrite", "loopack", "sync", "wgdone", "done"}

\* positions of the background goroutine after the streaming loop
AfterLoop == {"sync", "wgdone", "done"}

\* C11 (as stated): once the loop is over the acknowledgments written are
\* one at readiness, one after the control line and one per byte appended:
\* 2 + the number of bytes in the file.
C11_AckCount ==
  rBg \in AfterLoop => acks = 2 + Len(fileData)

\* C11 (amended): the read that reports end-of-stream is acknowledged too:
\* one acknowledgment at readiness, one after the control line, one per
\* loop iteration, so 3 + the number of bytes in the file once the loop is
\* over.
C11_AckCountWithEOF ==
  /\ (rBg \in {"readctl", "parse", "ack2"} => acks = 1)
  /\ (rBg = "create" => acks = 2)
  /\ (rBg = "loopread" => acks = 2 + Len(fileData))
  /\ (rBg \in AfterLoop => acks = 3 + Len(fileData))

C11_Witness ==
  rBg = "done" /\ ~exited /\ Len(fileData) = 1 /\ acks = 4

\* C12: for a well-formed control line, however the peer's output reaches
\* the reads, the bytes parsed are exactly the control line (all of it and
\* no content byte) and the bytes appended to the file are the peer's
\* content bytes in order, never a byte of the control line.
C12_ControlLineFirst ==
  WellFormedLine(peerCtl) =>
    /\ (rBg \in AfterCtlRead => ctlBuf = peerCtl)
    /\ (fileExists => IsPrefix(fileData, peerContent))
    /\ (rBg \in AfterLoop => fileData = peerContent)

\* C13 (as stated): the control line is parsed only after a read reported
\* an error (end-of-stream included) or the 100-byte buffer is full.
C13_ReadsUntilErrorOrFull ==
  rBg = "parse" => (Len(ctlBuf) = CtlBufLen \/ loopErr = "EOF")

\* C13 (amended): the control line is read with one Read of at most 100
\* bytes: nothing has been read while that Read is pending, and what is
\* parsed is what that one Read returned, be it short and without error.
C13_SingleRead ==
  /\ (rBg = "readctl" => readCount = 0 /\ ctlBuf = <<>>)
  /\ (rBg = "parse" =>
        /\ ctlBuf = SubSeq(PeerOut, 1, readCount)
        /\ Len(ctlBuf) <= CtlBufLen
        /\ (loopErr = "EOF") = (ctlBuf = <<>>))

\* a short read without error, of a part of the control line, is parsed
C13_Witness ==
  /\ rBg = "parse" /\ loopErr = "nil"
  /\ Len(ctlBuf) > 0 /\ Len(ctlBuf) < Len(peerCtl) /\ Len(ctlBuf) < CtlBufLen
  /\ ~peerClosed

\* C14 (as stated): the destination file is opened before the second
\* acknowledgment is written.
C14_OpenBeforeAck2 ==
  acks >= 2 => fileExists

\* C14 (amended): the second acknowledgment is written before the
\* destination file is opened: the file exists only after two
\* acknowledgments, and when createNewFile is about to be called the second
\* acknowledgment is out and there is no file yet.
C14_Ack2BeforeOpen ==
  /\ (fileExists => acks >= 2)
  /\ (rBg = "create" => acks = 2 /\ ~fileExists)

C14_Witness ==
  rBg = "create" /\ ~exited /\ acks = 2 /\ ~fileExists /\ WellFormedLine(ctlBuf)


\* positions of the calling goroutine between the spawn and the barrier
BeforeJoin == {"run", "running", "wait"}

\* C15: a read that fails with an error other than end-of-stream, in the
\* control-line read or in the loop, ends the process in that very step:
\* the step appends nothing and acknowledges nothing, the file is not
\* synchronized, the barrier is not released, the function has not returned
\* and, the process being gone, nothing happens afterwards.
C15_ReadErrorIsFatal ==
  /\ [](loopErr = "other" =>
          /\ exited /\ rBg \in {"readctl", "loopread"}
          /\ ~fileSynced /\ wg = 1
          /\ rFg \in BeforeJoin /\ rResult = "none")
  /\ [][(loopErr # "other" /\ loopErr' = "other") =>
          (acks' = acks /\ fileData' = fileData /\ fileSynced' = fileSynced)]_vars
  /\ [][~exited]_vars

\* the read fails in the loop after one byte was appended, the remote
\* command having already returned
C15_Witness ==
  /\ loopErr = "other" /\ exited /\ rBg = "loopread"
  /\ Len(fileData) = 1 /\ acks = 3 /\ rFg = "wait"

\* C16: a control-line read that yields fewer than three space-separated
\* fields (the empty read at end-of-stream included) never gets past the
\* index expressions: the process ends there, with the first
\* acknowledgment written and no second one, no destination file, the
\* barrier not released and the function not returned.
C16_ShortLinePanics ==
  /\ (rBg \in (AfterCtlRead \ {"parse"}) => Len(Split(ctlBuf)) >= 3)
  /\ ((rBg = "parse" /\ exited) =>
        /\ ParsePanics(ctlBuf)
        /\ acks = 1 /\ ~fileExists /\ wg = 1
        /\ rFg \in BeforeJoin /\ rResult = "none")

\* the peer ends its output without sending anything
C16_Witness ==
  /\ rBg = "parse" /\ exited /\ ctlBuf = <<>> /\ loopErr = "EOF"
  /\ peerClosed /\ acks = 1 /\ ~fileExists

\* C17: under fair scheduling, a receive whose remote command started and
\* whose peer sends a well-formed control line, its content and
\* end-of-stream goes on to return nil, unless a failure of the transport
\* or of the local file system ends the process first; in particular it
\* neither blocks for ever nor is ended by a panic over the control line.
C17_ReceiveTerminates ==
  (srcStarted /\ WellFormedLine(peerCtl)) ~>
     (RecvReturnedNil \/ (exited /\ rBg # "parse"))

\* C18: while the peer has delivered nothing and has not signalled
\* end-of-stream, the background task is at or before its first read, which
\* cannot return data or end-of-stream, the barrier is not released and the
\* function has neither passed the barrier nor returned, whether or not the
\* remote command has already returned.
C18_StalledPeerBlocks ==
  (rBg # "none" /\ peerSent = 0 /\ ~peerClosed) =>
     /\ rBg \in {"ack1", "readctl"}
     /\ (rBg = "readctl" => ~ReadReady)
     /\ wg = 1
     /\ rFg \in BeforeJoin /\ rResult = "none"
     /\ (rFg = "wait" => ~ENABLED RecvWait)

\* the remote command has failed to start and returned, the peer is silent,
\* the function waits at the barrier for the task blocked in its read
C18_Witness ==
  /\ rFg = "wait" /\ rBg = "readctl" /\ ~srcStarted
  /\ peerSent = 0 /\ ~peerClosed /\ ~exited

\* the record the writer is to send: control line, content, terminator
FullRecord == SendControlLine(sContent, localName) \o Fprint(sContent) \o SendTerminator

\* C19: the bytes accepted by the write-sink are always a prefix of the
\* full record (nothing before the file has been read); the stream only
\* ever grows at its end, and not at all once the sink is closed.
C19_WirePrefix ==
  /\ [](IF sBg \in {"none", "readfile"} THEN wire = <<>> ELSE IsPrefix(wire, FullRecord))
  /\ [][IsPrefix(wire, wire')]_vars
  /\ [][sWriterClosed => wire' = wire]_vars

\* the close came while the writer was in the middle of the record
C19_Witness ==
  /\ sWriterClosed /\ sBg = "done"
  /\ Len(wire) > 0 /\ Len(wire) < Len(FullRecord)

\* C20 as stated: after a failed read the stream is that of an empty file.
C20_AsEmptyFile ==
  (sReadErr /\ sBg = "done" /\ ~sWriterClosed) =>
     wire = <<67, 48, 54, 52, 52, SP, Ch0, SP>> \o localName \o <<NL, NUL, NL>>

\* C20, amended: a failed read is ignored and the writer goes on with the
\* bytes the read returned, none or a proper prefix of the file: unless the
\* sink is closed on the way, the stream is the control line with their
\* count, those bytes and the terminator, and the function returns nil.
C20_ReadErrorIgnored ==
  /\ (sReadErr =>
        /\ sBg \in {"ctl", "content", "term", "done"}
        /\ IsPrefix(sContent, localData)
        /\ (sContent = <<>> \/ Len(sContent) < Len(localData)))
  /\ ((sReadErr /\ sBg = "done" /\ ~sWriterClosed) =>
        wire = <<67, 48, 54, 52, 52, SP>> \o Decimal(Len(sContent)) \o <<SP>> \o localName
                 \o <<NL>> \o sContent \o <<NUL, NL>>)
  /\ ((sFg = "returned" /\ sBg # "none") => sResult = "nil")

\* the read failed after one byte of a longer file; the whole stream was
\* accepted and the function has returned nil
C20_Witness ==
  /\ sReadErr /\ sBg = "done" /\ sFg = "returned" /\ sResult = "nil"
  /\ Len(sContent) = 1 /\ Len(localData) > 1
  /\ wire = <<67, 48, 54, 52, 52, SP, Ch0 + 1, SP>> \o localName \o <<NL>> \o sContent \o <<NUL, NL>>

=============================================================================
